---------------------------- MODULE Spec2Model ----------------------------
(***************************************************************************)
(* The encrypted credential vault of the Secure Password Manager:          *)
(* classes/password_manager.py (PasswordManager), the menu loop of main.py *)
(* that drives it, and the strength analysis of                            *)
(* functions/password_functions.py that is stored with every record.       *)
(*                                                                         *)
(* A Python dict is a function on its set of keys.  A string the user      *)
(* types (service, username, master password) is a TLA+ string; a stored   *)
(* password is a sequence of one-character strings, because the strength   *)
(* analysis looks at its characters.  Fernet and PBKDF2 come from the      *)
(* cryptography package and are modelled symbolically: a token names the   *)
(* key and the IV it was made with and the plaintext it carries, and it    *)
(* decrypts under that key only.                                           *)
(***************************************************************************)
EXTENDS Integers, Sequences, FiniteSets, TLC

VARIABLES
    vault,            \* the file data/passwords.enc on disk
    pc,               \* "start" | "menu" | "exited": where the process is
    master_password,  \* PasswordManager.master_password
    passwords,        \* PasswordManager.passwords, when it is a dict
    passwords_type,   \* the Python type of PasswordManager.passwords
    nextIV,           \* how many IVs os.urandom has handed to Fernet
    out               \* the calls of the last handler and their results

vars == <<vault, pc, master_password, passwords, passwords_type, nextIV, out>>

----------------------------------------------------------------------------
(* Bounds of the model *)

\* the IVs os.urandom hands out in one behaviour are 1 .. MaxEncryptions - 1:
\* a behaviour holds at most that many saves
MaxEncryptions == 4

\* what the user types at the prompts
ServiceNames == <<"github", "x">>
UsernameNames == <<"alice", "y">>
Services == {ServiceNames[i] : i \in DOMAIN ServiceNames}
Usernames == {UsernameNames[i] : i \in DOMAIN UsernameNames}
MasterPasswords == {"correct horse", "hunter2"}

\* the passwords "Tr0ub4dor&3" and "p1"
Secrets ==
    { <<"T", "r", "0", "u", "b", "4", "d", "o", "r", "&", "3">>,
      <<"p", "1">> }

\* the largest length asked of generate_password
MaxLength == 5

\* how many of the characters of a string random.choice is seen to return
MaxChoices == 3

\* The readings of time.time().  created_at is stored and never read,
\* compared or computed with, so one reading stands for all.
Times == {1700000000}

----------------------------------------------------------------------------
(* functions/password_functions.py: analyse_password_strength *)

lowercase ==
    <<"a", "b", "c", "d", "e", "f", "g", "h", "i", "j", "k", "l", "m",
      "n", "o", "p", "q", "r", "s", "t", "u", "v", "w", "x", "y", "z">>
uppercase ==
    <<"A", "B", "C", "D", "E", "F", "G", "H", "I", "J", "K", "L", "M",
      "N", "O", "P", "Q", "R", "S", "T", "U", "V", "W", "X", "Y", "Z">>
digits == <<"0", "1", "2", "3", "4", "5", "6", "7", "8", "9">>

Range(s) == {s[i] : i \in DOMAIN s}

\* str.lower() of one character
LowerChar(c) ==
    IF \E i \in DOMAIN uppercase : uppercase[i] = c
    THEN lowercase[CHOOSE i \in DOMAIN uppercase : uppercase[i] = c]
    ELSE c

\* str.lower()
Lower(s) == [i \in DOMAIN s |-> LowerChar(s[i])]

\* re.search of a literal: pat occurs somewhere in s
Contains(s, pat) ==
    \E k \in 0..(Len(s) - Len(pat)) :
        \A j \in 1..Len(pat) : s[k + j] = pat[j]

\* the alternatives of r'12345|qwerty|password|admin'
CommonPatterns ==
    { <<"1", "2", "3", "4", "5">>,
      <<"q", "w", "e", "r", "t", "y">>,
      <<"p", "a", "s", "s", "w", "o", "r", "d">>,
      <<"a", "d", "m", "i", "n">> }

BoolInt(b) == IF b THEN 1 ELSE 0

analyse_password_strength(password) ==
    LET n == Len(password)
        tooShort == n < 8
        long == ~tooShort /\ n >= 12
        lengthScore == IF tooShort THEN -2 ELSE IF long THEN 2 ELSE 1
        lengthFeedback ==
            IF tooShort THEN <<"Password is too short (< 8 characters)">>
            ELSE IF long THEN <<"Good length">> ELSE <<>>
        has_lowercase == \E i \in 1..n : password[i] \in Range(lowercase)
        has_uppercase == \E i \in 1..n : password[i] \in Range(uppercase)
        has_digit == \E i \in 1..n : password[i] \in Range(digits)
        has_special ==
            \E i \in 1..n :
                password[i] \notin
                    Range(lowercase) \cup Range(uppercase) \cup Range(digits)
        char_types ==
            BoolInt(has_lowercase) + BoolInt(has_uppercase)
                + BoolInt(has_digit) + BoolInt(has_special)
        varietyScore ==
            IF char_types = 4 THEN 3
            ELSE IF char_types = 3 THEN 2
            ELSE IF char_types = 2 THEN 1
            ELSE -1
        varietyFeedback ==
            IF char_types = 4 THEN "Excellent character variety"
            ELSE IF char_types = 3 THEN "Good character variety"
            ELSE IF char_types = 2 THEN "Limited character variety"
            ELSE "Poor character variety"
        common == \E pat \in CommonPatterns : Contains(Lower(password), pat)
        repeating ==
            \E i \in 1..(n - 2) :
                password[i] = password[i + 1] /\ password[i + 1] = password[i + 2]
        score ==
            lengthScore + varietyScore
                + (IF common THEN -3 ELSE 0) + (IF repeating THEN -1 ELSE 0)
        feedback ==
            lengthFeedback \o <<varietyFeedback>>
                \o (IF common THEN <<"Contains common patterns">> ELSE <<>>)
                \o (IF repeating THEN <<"Contains repeating characters">> ELSE <<>>)
    IN  [ score |-> score,
          strength |->
              IF score >= 4 THEN "Strong"
              ELSE IF score >= 2 THEN "Medium" ELSE "Weak",
          feedback |-> feedback,
          has_lowercase |-> has_lowercase,
          has_uppercase |-> has_uppercase,
          has_digit |-> has_digit,
          has_special |-> has_special ]

----------------------------------------------------------------------------
(* functions/password_functions.py: generate_password *)

\* string.punctuation; "grave" stands for the grave accent, which a TLA+
\* string cannot hold
punctuation ==
    <<"!", "\"", "#", "$", "%", "&", "'", "(", ")", "*", "+", ",", "-", ".",
      "/", ":", ";", "<", "=", ">", "?", "@", "[", "\\", "]", "^", "_", "grave",
      "{", "|", "}", "~">>

\* random.choice(seq): any character of seq.  MaxChoices of them, spread
\* evenly over seq, stand for all.
random_choice(seq) ==
    {seq[1 + ((k * Len(seq)) \div MaxChoices)] : k \in 0..(MaxChoices - 1)}

\* random.shuffle(x): any rearrangement of x
random_shuffle(x) ==
    {[i \in 1..Len(x) |-> x[q[i]]] : q \in Permutations(1..Len(x))}

\* The passwords generate_password(length, include_special) can return.
\* range(length - len(password)) is empty when the length asked for is not
\* above the number of characters already chosen.
generate_password(length, include_special) ==
    LET special == IF include_special THEN punctuation ELSE <<>>
        one_of_each ==
            { <<l, u, d>> : l \in random_choice(lowercase),
                            u \in random_choice(uppercase),
                            d \in random_choice(digits) }
        appended ==
            IF include_special
            THEN {p \o <<c>> : p \in one_of_each, c \in random_choice(special)}
            ELSE one_of_each
        all_chars == lowercase \o uppercase \o digits \o special
        extended ==
            UNION { { p \o [i \in 1..(length - Len(p)) |-> fill[i]] :
                        fill \in [1..(length - Len(p)) -> random_choice(all_chars)] } :
                    p \in appended }
    IN  UNION {random_shuffle(p) : p \in extended}

----------------------------------------------------------------------------
(* Python dict operations *)

EmptyDict == [k \in {} |-> k]

\* d[k] = v
Put(d, k, v) == [z \in DOMAIN d \cup {k} |-> IF z = k THEN v ELSE d[z]]

\* del d[k]
Remove(d, k) == [z \in DOMAIN d \ {k} |-> d[z]]

----------------------------------------------------------------------------
(* classes/password_manager.py: the in-memory store *)

\* analyse_password_strength of the passwords the user enters, worked out once
StrengthOf == [p \in Secrets |-> analyse_password_strength(p)]

\* the record add_password builds
NewRecord(password, now) ==
    [ password |-> password,
      created_at |-> now,
      strength |-> StrengthOf[password] ]

\* add_password without the test of line 164: the service's mapping is made
\* anew on every call
add_password_resets_service(pw, service, username, password, now) ==
    Put(pw, service, Put(EmptyDict, username, NewRecord(password, now)))

add_password(pw, service, username, password, now) ==
    LET withService ==
            IF service \notin DOMAIN pw THEN Put(pw, service, EmptyDict) ELSE pw
    IN  [withService EXCEPT
            ![service] = Put(@, username, NewRecord(password, now))]

\* Python's None, where a password (a sequence of characters) may stand
None == <<"None">>

get_password(pw, service, username) ==
    IF service \in DOMAIN pw /\ username \in DOMAIN pw[service]
    THEN pw[service][username].password
    ELSE None

\* the keys, as a set: the order of the list is the dict's insertion order,
\* which the model does not keep
list_services(pw) == DOMAIN pw

list_usernames(pw, service) ==
    IF service \in DOMAIN pw THEN DOMAIN pw[service] ELSE {}

\* delete_password without lines 228-229: the emptied service stays
delete_password_keeps_service(pw, service, username) ==
    IF service \in DOMAIN pw /\ username \in DOMAIN pw[service]
    THEN [ passwords |-> [pw EXCEPT ![service] = Remove(@, username)],
           ret |-> TRUE ]
    ELSE [passwords |-> pw, ret |-> FALSE]

\* delete_password that tests the service only and pops the username
delete_password_any_username(pw, service, username) ==
    IF service \in DOMAIN pw
    THEN LET removed == [pw EXCEPT ![service] = Remove(@, username)]
         IN  [ passwords |->
                   IF DOMAIN removed[service] = {}
                   THEN Remove(removed, service)
                   ELSE removed,
               ret |-> TRUE ]
    ELSE [passwords |-> pw, ret |-> FALSE]

\* delete_password that deletes the service with all its usernames
delete_password_drops_service(pw, service, username) ==
    IF service \in DOMAIN pw /\ username \in DOMAIN pw[service]
    THEN [passwords |-> Remove(pw, service), ret |-> TRUE]
    ELSE [passwords |-> pw, ret |-> FALSE]

delete_password(pw, service, username) ==
    IF service \in DOMAIN pw /\ username \in DOMAIN pw[service]
    THEN LET removed == [pw EXCEPT ![service] = Remove(@, username)]
         IN  [ passwords |->
                   IF DOMAIN removed[service] = {}
                   THEN Remove(removed, service)
                   ELSE removed,
               ret |-> TRUE ]
    ELSE [passwords |-> pw, ret |-> FALSE]

----------------------------------------------------------------------------
(* json.dumps and json.loads.  A JSON text is modelled by its structure: an  *)
(* object is the sequence of its <<key, value>> members in the order they    *)
(* are written, an array here is always [], and "invalid" is a text that is  *)
(* not JSON at all.                                                          *)

\* the keys of d as a sequence, in the order of names
KeySeq(d, names) == SelectSeq(names, LAMBDA k : k \in DOMAIN d)

DumpsRecord(r) ==
    << <<"password", r.password>>,
       <<"created_at", r.created_at>>,
       <<"strength", r.strength>> >>

DumpsUsernames(d) ==
    LET keys == KeySeq(d, UsernameNames)
    IN  [i \in DOMAIN keys |-> <<keys[i], DumpsRecord(d[keys[i]])>>]

DumpsStore(pw) ==
    LET keys == KeySeq(pw, ServiceNames)
    IN  [i \in DOMAIN keys |-> <<keys[i], DumpsUsernames(pw[keys[i]])>>]

json_dumps(type, pw) ==
    IF type = "list"
    THEN [kind |-> "array", members |-> <<>>]
    ELSE [kind |-> "object", members |-> DumpsStore(pw)]

\* the value json.loads gives a key: that of its last member
Member(members, key) ==
    LET last ==
            CHOOSE i \in DOMAIN members :
                /\ members[i][1] = key
                /\ \A j \in DOMAIN members : members[j][1] = key => j <= i
    IN  members[last][2]

MemberKeys(members) == {members[i][1] : i \in DOMAIN members}

LoadsRecord(members) ==
    [ password |-> Member(members, "password"),
      created_at |-> Member(members, "created_at"),
      strength |-> Member(members, "strength") ]

LoadsUsernames(members) ==
    [u \in MemberKeys(members) |-> LoadsRecord(Member(members, u))]

LoadsStore(members) ==
    [s \in MemberKeys(members) |-> LoadsUsernames(Member(members, s))]

\* ok = FALSE: json.JSONDecodeError
json_loads(text) ==
    IF text.kind = "invalid"
    THEN [ok |-> FALSE, type |-> "dict", value |-> EmptyDict]
    ELSE IF text.kind = "array"
    THEN [ok |-> TRUE, type |-> "list", value |-> EmptyDict]
    ELSE [ok |-> TRUE, type |-> "dict", value |-> LoadsStore(text.members)]

\* a plaintext that is not JSON, and the JSON text []
InvalidText == [kind |-> "invalid", members |-> <<>>]
ArrayText == [kind |-> "array", members |-> <<>>]

----------------------------------------------------------------------------
(* Key derivation and Fernet *)

_generate_key(password) ==
    [ kdf |-> "PBKDF2HMAC-SHA256",
      salt |-> "staticSalt123456",
      password |-> password ]

\* Fernet(key).encrypt(data), with the IV os.urandom handed out
FernetEncrypt(key, iv, data) == [key |-> key, iv |-> iv, data |-> data]

\* what a file holds: nothing, a proper prefix of a token, or a whole token
EmptyBytes == [part |-> "empty"]
PartialBytes == [part |-> "partial"]
FullBytes(token) == [part |-> "full", token |-> token]

\* Fernet(key).decrypt(bytes); ok = FALSE: cryptography.fernet.InvalidToken
FernetDecrypt(key, bytes) ==
    IF bytes.part = "full" /\ bytes.token.key = key
    THEN [ok |-> TRUE, data |-> bytes.token.data]
    ELSE [ok |-> FALSE, data |-> InvalidText]

\* the vault file
Absent == [exists |-> FALSE]
File(bytes) == [exists |-> TRUE, bytes |-> bytes]

----------------------------------------------------------------------------
(* classes/password_manager.py: load and save *)

\* The result of _load_passwords: the value of self.passwords, the branch
\* taken, and the exception that reaches the caller.
Loaded(type, value, branch) ==
    [ passwords_type |-> type,
      passwords |-> value,
      load |-> branch,
      raised |-> "none" ]

\* _load_passwords without the assignment of line 121: the decrypted store
\* is dropped
_load_passwords_drops_store(file, key, readOk) ==
    IF ~readOk
    THEN Loaded("dict", EmptyDict, "error: read")
    ELSE IF file.bytes.part = "empty"
    THEN Loaded("dict", EmptyDict, "empty file")
    ELSE IF ~FernetDecrypt(key, file.bytes).ok
    THEN Loaded("dict", EmptyDict, "error: decrypt")
    ELSE Loaded("dict", EmptyDict, "loaded")

_load_passwords(file, key, readOk) ==
    IF ~readOk
    THEN Loaded("dict", EmptyDict, "error: read")
    ELSE IF file.bytes.part = "empty"
    THEN Loaded("dict", EmptyDict, "empty file")
    ELSE LET decrypted == FernetDecrypt(key, file.bytes)
             parsed == json_loads(decrypted.data)
         IN  IF ~decrypted.ok
             THEN Loaded("dict", EmptyDict, "error: decrypt")
             ELSE IF ~parsed.ok
             THEN Loaded("dict", EmptyDict, "error: parse")
             ELSE Loaded(parsed.type, parsed.value, "loaded")

\* PasswordManager(master_password)
PasswordManagerInit(file, password, readOk) ==
    IF file.exists
    THEN _load_passwords(file, _generate_key(password), readOk)
    ELSE Loaded("dict", EmptyDict, "no file")

\* What can happen to the write of save_passwords.
\*   ok            the file is opened and the token written
\*   open error    open() raises OSError: the file is untouched
\*   write error   open() has truncated the file and write() or close()
\*                 raises OSError with a part of the token on disk
\*   killed        the process is interrupted or dies after open() has
\*                 truncated the file and before any byte is on disk
SaveOutcomes == {"ok", "open error", "write error", "killed"}

Killed(io) == io = "killed"

\* save_passwords with an encryption that draws no fresh IV
save_passwords_fixed_iv(file, type, pw, key, iv, io) ==
    [ vault |->
          IF io = "ok"
          THEN File(FullBytes(FernetEncrypt(key, 0, json_dumps(type, pw))))
          ELSE IF io = "open error" THEN file
          ELSE IF io = "write error" THEN File(PartialBytes)
          ELSE File(EmptyBytes),
      printed |->
          IF io = "ok" THEN "Passwords saved successfully."
          ELSE IF Killed(io) THEN "" ELSE "Error saving passwords",
      raised |-> IF Killed(io) THEN "KeyboardInterrupt" ELSE "none" ]

\* The result of save_passwords: the file afterwards, what it printed and
\* the exception that reaches the caller.
save_passwords(file, type, pw, key, iv, io) ==
    LET json_data == json_dumps(type, pw)
        encrypted_data == FernetEncrypt(key, iv, json_data)
    IN  [ vault |->
              IF io = "ok" THEN File(FullBytes(encrypted_data))
              ELSE IF io = "open error" THEN file
              ELSE IF io = "write error" THEN File(PartialBytes)
              ELSE File(EmptyBytes),
          printed |->
              IF io = "ok" THEN "Passwords saved successfully."
              ELSE IF Killed(io) THEN "" ELSE "Error saving passwords",
          raised |-> IF Killed(io) THEN "KeyboardInterrupt" ELSE "none" ]

----------------------------------------------------------------------------
(* main.py: the session.  One action per menu choice; every action is the   *)
(* whole handler, the save it ends with included.  out holds the result of  *)
(* the last handler that called the constructor, add_password,              *)
(* delete_password or save_passwords; the handlers that only print change   *)
(* nothing.                                                                 *)

\* A vault file left by something other than this program: one that holds
\* no bytes, or a token under the key of a master password whose plaintext
\* is not a store document.  One master password is enough: a session logs
\* in with it or with the other.
ForeignVaults ==
    {File(EmptyBytes)}
        \cup { File(FullBytes(FernetEncrypt(_generate_key(p), 0, text))) :
                 p \in {"hunter2"}, text \in {InvalidText, ArrayText} }

Init ==
    /\ vault \in {Absent} \cup ForeignVaults
    /\ pc = "start"
    /\ master_password = ""
    /\ passwords = EmptyDict
    /\ passwords_type = "dict"
    /\ nextIV = 1
    /\ out = [op |-> "none"]

\* The file a save is about to write over holds a whole token of the session
\* key with the plaintext the save is about to encrypt.  It is recorded in out
\* so that a state shows whether a save rewrote an unchanged store.
SameAsOnDisk(pw) ==
    /\ vault.exists
    /\ vault.bytes.part = "full"
    /\ vault.bytes.token.key = _generate_key(master_password)
    /\ vault.bytes.token.data = json_dumps(passwords_type, pw)

\* main.py 38-41: the master password is read and the manager constructed
Login(password, readOk) ==
    /\ pc \in {"start", "exited"}
    /\ LET pm == PasswordManagerInit(vault, password, readOk)
       IN  /\ master_password' = password
           /\ passwords' = pm.passwords
           /\ passwords_type' = pm.passwords_type
           /\ out' = [op |-> "init", load |-> pm.load, raised |-> pm.raised]
    /\ pc' = "menu"
    /\ UNCHANGED <<vault, nextIV>>

\* choice 1: the services and their usernames are printed
ViewServices ==
    /\ pc = "menu"
    /\ UNCHANGED vars

\* pm.add_password(...); pm.save_passwords() of choices 2 and 4.  On a
\* self.passwords that is a list, add_password raises TypeError, which
\* nothing catches.
AddAndSave(service, username, password, now, io) ==
    IF passwords_type # "dict"
    THEN /\ pc' = "exited"
         /\ out' = [ op |-> "add",
                     service |-> service,
                     username |-> username,
                     password |-> password,
                     replaced |-> FALSE,
                     io |-> "none",
                     save |-> "",
                     same |-> FALSE,
                     raised |-> "TypeError" ]
         /\ UNCHANGED <<vault, master_password, passwords, passwords_type, nextIV>>
    ELSE /\ nextIV < MaxEncryptions
         /\ LET added == add_password(passwords, service, username, password, now)
                saved ==
                    save_passwords(vault, passwords_type, added,
                                   _generate_key(master_password), nextIV, io)
            IN  /\ passwords' = added
                /\ vault' = saved.vault
                /\ out' = [ op |-> "add",
                            service |-> service,
                            username |-> username,
                            password |-> password,
                            replaced |->
                                get_password(passwords, service, username) # None,
                            io |-> io,
                            save |-> saved.printed,
                            same |-> SameAsOnDisk(added),
                            raised |-> saved.raised ]
         /\ nextIV' = nextIV + 1
         /\ pc' = IF Killed(io) THEN "exited" ELSE "menu"
         /\ UNCHANGED <<master_password, passwords_type>>

\* choice 2: a password is entered or generated, analysed and checked for
\* breaches; a breached one is saved only when the user confirms
AddPassword ==
    /\ pc = "menu"
    /\ \/ \E service \in Services, username \in Usernames, password \in Secrets,
             now \in Times, io \in SaveOutcomes :
               AddAndSave(service, username, password, now, io)
       \/ UNCHANGED vars

\* choice 3
RetrievePassword(service, username) ==
    /\ pc = "menu"
    /\ UNCHANGED vars

\* choice 4: a password is generated and shown, and saved when the user
\* asks for it
GeneratePassword ==
    /\ pc = "menu"
    /\ \/ \E service \in Services, username \in Usernames, password \in Secrets,
             now \in Times, io \in SaveOutcomes :
               AddAndSave(service, username, password, now, io)
       \/ UNCHANGED vars

\* choice 5: the breach service answers, nothing is stored
CheckBreach ==
    /\ pc = "menu"
    /\ UNCHANGED vars

\* choice 6 without pm.save_passwords() of line 188: the record deleted in
\* memory stays in the vault file
DeletePassword_without_save(service, username) ==
    /\ pc = "menu"
    /\ LET deleted == delete_password(passwords, service, username)
       IN  /\ passwords' = deleted.passwords
           /\ out' = [ op |-> "delete",
                       service |-> service,
                       username |-> username,
                       ret |-> deleted.ret,
                       io |-> "none",
                       save |-> "",
                       same |-> FALSE,
                       raised |-> "none" ]
    /\ UNCHANGED <<vault, nextIV, pc, master_password, passwords_type>>

\* choice 6: if pm.delete_password(service, username): pm.save_passwords()
DeletePassword(service, username) ==
    /\ pc = "menu"
    /\ LET deleted == delete_password(passwords, service, username)
       IN  IF deleted.ret
           THEN /\ nextIV < MaxEncryptions
                /\ passwords' = deleted.passwords
                /\ nextIV' = nextIV + 1
                /\ \E io \in SaveOutcomes :
                     LET saved ==
                             save_passwords(vault, passwords_type,
                                            deleted.passwords,
                                            _generate_key(master_password),
                                            nextIV, io)
                     IN  /\ vault' = saved.vault
                         /\ pc' = IF Killed(io) THEN "exited" ELSE "menu"
                         /\ out' = [ op |-> "delete",
                                     service |-> service,
                                     username |-> username,
                                     ret |-> TRUE,
                                     io |-> io,
                                     save |-> saved.printed,
                                     same |-> SameAsOnDisk(deleted.passwords),
                                     raised |-> saved.raised ]
           ELSE /\ passwords' = deleted.passwords
                /\ out' = [ op |-> "delete",
                            service |-> service,
                            username |-> username,
                            ret |-> FALSE,
                            io |-> "none",
                            save |-> "",
                            same |-> FALSE,
                            raised |-> "none" ]
                /\ UNCHANGED <<vault, nextIV, pc>>
    /\ UNCHANGED <<master_password, passwords_type>>

\* choice 7: pm.save_passwords(); break
SaveAndExit(io) ==
    /\ pc = "menu"
    /\ nextIV < MaxEncryptions
    /\ LET saved ==
               save_passwords(vault, passwords_type, passwords,
                              _generate_key(master_password), nextIV, io)
       IN  /\ vault' = saved.vault
           /\ out' = [ op |-> "exit",
                       io |-> io,
                       save |-> saved.printed,
                       same |-> SameAsOnDisk(passwords),
                       raised |-> saved.raised ]
    /\ nextIV' = nextIV + 1
    /\ pc' = "exited"
    /\ UNCHANGED <<master_password, passwords, passwords_type>>

\* any other choice
InvalidChoice ==
    /\ pc = "menu"
    /\ UNCHANGED vars

\* main.py 204-208: Ctrl-C at a prompt ends the program without a save
Interrupt ==
    /\ pc = "menu"
    /\ pc' = "exited"
    /\ out' = [op |-> "interrupt"]
    /\ UNCHANGED <<vault, master_password, passwords, passwords_type, nextIV>>

Next ==
    \/ \E p \in MasterPasswords, readOk \in BOOLEAN : Login(p, readOk)
    \/ ViewServices
    \/ AddPassword
    \/ \E s \in Services, u \in Usernames : RetrievePassword(s, u)
    \/ GeneratePassword
    \/ CheckBreach
    \/ \E s \in Services, u \in Usernames : DeletePassword(s, u)
    \/ \E io \in SaveOutcomes : SaveAndExit(io)
    \/ InvalidChoice
    \/ Interrupt

Spec == Init /\ [][Next]_vars

----------------------------------------------------------------------------
(* The password functions on their own: main.py 75-93 and 131-142 without  *)
(* the manager.  A password is typed, or a length and the answer to        *)
(* "Include special characters?" are typed and a password is generated;    *)
(* the password is then analysed.                                          *)

\* the lengths int(input(...)) yields
Lengths == -1..MaxLength

\* what getpass returns: "", "aaa", "admin", "adminnn", "password",
\* "PASSWORD", "qwerty12345", "Password123!", "Xk9#mQ2$vL7@",
\* "correcthorsebattery" and the two passwords of Secrets
TypedPasswords ==
    Secrets \cup
    { <<>>,
      <<"a", "a", "a">>,
      <<"a", "d", "m", "i", "n">>,
      <<"a", "d", "m", "i", "n", "n", "n">>,
      <<"p", "a", "s", "s", "w", "o", "r", "d">>,
      <<"P", "A", "S", "S", "W", "O", "R", "D">>,
      <<"q", "w", "e", "r", "t", "y", "1", "2", "3", "4", "5">>,
      <<"P", "a", "s", "s", "w", "o", "r", "d", "1", "2", "3", "!">>,
      <<"X", "k", "9", "#", "m", "Q", "2", "$", "v", "L", "7", "@">>,
      <<"c", "o", "r", "r", "e", "c", "t", "h", "o", "r", "s", "e",
        "b", "a", "t", "t", "e", "r", "y">> }

InitFunctions ==
    /\ vault = Absent
    /\ pc = "functions"
    /\ master_password = ""
    /\ passwords = EmptyDict
    /\ passwords_type = "dict"
    /\ nextIV = 1
    /\ out \in { [op |-> "typed", password |-> p] : p \in TypedPasswords }
           \cup { [op |-> "asked", length |-> l, include_special |-> b] :
                    l \in Lengths, b \in BOOLEAN }

\* password = generate_password(length, include_special)
Generate ==
    /\ out.op = "asked"
    /\ \E password \in generate_password(out.length, out.include_special) :
         out' = [ op |-> "generated",
                  length |-> out.length,
                  include_special |-> out.include_special,
                  password |-> password ]
    /\ UNCHANGED <<vault, pc, master_password, passwords, passwords_type, nextIV>>

\* strength_info = analyse_password_strength(password)
Analyse ==
    /\ out.op \in {"typed", "generated"}
    /\ out' = [ op |-> "analysed",
                password |-> out.password,
                strength_info |-> analyse_password_strength(out.password) ]
    /\ UNCHANGED <<vault, pc, master_password, passwords, passwords_type, nextIV>>

NextFunctions ==
    \/ Generate
    \/ Analyse

SpecFunctions == InitFunctions /\ [][NextFunctions]_vars

----------------------------------------------------------------------------
(* Properties *)

Pairs == Services \X Usernames

HasRecord(pw, service, username) ==
    service \in DOMAIN pw /\ username \in DOMAIN pw[service]

\* the record at a pair, as a set: empty when there is none
RecordAt(pw, service, username) ==
    IF HasRecord(pw, service, username) THEN {pw[service][username]} ELSE {}

\* every pair but <<service, username>> holds what it held
OthersUnchanged(service, username) ==
    \A q \in Pairs :
        q # <<service, username>> =>
            RecordAt(passwords', q[1], q[2]) = RecordAt(passwords, q[1], q[2])

\* the last handler saved and save_passwords printed its success
SavedOk ==
    /\ out.op \in {"add", "delete", "exit"}
    /\ out.save = "Passwords saved successfully."

\* the vault file holds a whole token
HoldsToken(file) == file.exists /\ file.bytes.part = "full"

\* C1: after a save that succeeded in a session keyed by P, constructing a
\* manager with the same P on the vault file loads exactly the store (and the
\* type of store) the session holds.
RoundTrip ==
    SavedOk =>
        LET pm == PasswordManagerInit(vault, master_password, TRUE)
        IN  /\ pm.load = "loaded"
            /\ pm.passwords_type = passwords_type
            /\ pm.passwords = passwords

\* a new session has loaded a store of two services from the vault file
RoundTripWitness ==
    /\ out.op = "init"
    /\ out.load = "loaded"
    /\ passwords_type = "dict"
    /\ Cardinality(DOMAIN passwords) = 2

\* C2: a session constructed on a vault file that holds a store with records
\* saved under another master password ends in a WrongMasterPasswordOrCorruptVault
\* failure that reaches the caller, and does not go on to the menu with a
\* store in hand.
WrongKeyRejected ==
    ( /\ out.op = "init"
      /\ out.load # "error: read"
      /\ HoldsToken(vault)
      /\ vault.bytes.token.data.kind = "object"
      /\ vault.bytes.token.data.members # <<>>
      /\ vault.bytes.token.key # _generate_key(master_password) )
        => (out.raised = "WrongMasterPasswordOrCorruptVault" /\ pc # "menu")

\* C3: every service in the store maps to a non-empty username mapping.
StoreInvariant == \A s \in DOMAIN passwords : DOMAIN passwords[s] # {}

\* a delete has removed the last username of a service, and the service with
\* it, while another service stays
StoreInvariantWitness ==
    /\ out.op = "delete"
    /\ out.ret
    /\ out.service \notin DOMAIN passwords
    /\ passwords # EmptyDict

\* C4: whatever a step does to the vault file, the file afterwards is the
\* file before or a whole token: never empty, never a part of a token.
AtomicSave == [][vault' = vault \/ HoldsToken(vault')]_vars

\* C5: a delete of a pair that has no record returns False, leaves the store
\* as it was and writes nothing: the vault file is untouched and nothing is
\* encrypted.
IdempotentDelete ==
    [][ ( /\ pc = "menu"
          /\ out'.op = "delete"
          /\ ~HasRecord(passwords, out'.service, out'.username) )
            => ( /\ out'.ret = FALSE
                 /\ passwords' = passwords
                 /\ passwords_type' = passwords_type
                 /\ vault' = vault
                 /\ nextIV' = nextIV ) ]_vars

\* a delete of a username a service does not have, with other usernames
\* under that service, has returned False
IdempotentDeleteWitness ==
    /\ out.op = "delete"
    /\ ~out.ret
    /\ out.service \in DOMAIN passwords
    /\ HoldsToken(vault)

\* the number of records in the store
NumRecords(pw) == Cardinality({q \in Pairs : HasRecord(pw, q[1], q[2])})

\* C6: on a store, add_password(service, username, secret) succeeds; after it
\* get_password(service, username) is secret, the pair holds one record (the
\* store has one record more if the pair had none, and as many if it had
\* one), and every other pair holds what it held.
AddThenGet ==
    [][ ( /\ pc = "menu"
          /\ passwords_type = "dict"
          /\ out'.op = "add" )
            => ( /\ out'.raised # "TypeError"
                 /\ get_password(passwords', out'.service, out'.username)
                        = out'.password
                 /\ NumRecords(passwords') =
                        IF HasRecord(passwords, out'.service, out'.username)
                        THEN NumRecords(passwords)
                        ELSE NumRecords(passwords) + 1
                 /\ OthersUnchanged(out'.service, out'.username) ) ]_vars

\* an add has written over the record of a pair, beside another username of
\* the same service, and the save after it has put the new password on disk
AddThenGetWitness ==
    /\ out.op = "add"
    /\ out.replaced
    /\ out.raised = "none"
    /\ Cardinality(DOMAIN passwords[out.service]) = 2
    /\ HoldsToken(vault)
    /\ out.save = "Passwords saved successfully."
    /\ LET onDisk == PasswordManagerInit(vault, master_password, TRUE).passwords
       IN  get_password(onDisk, out.service, out.username) = out.password

\* C7: a delete of a pair that has a record returns True and removes that
\* record; the service goes exactly when the pair was its last username;
\* every other pair holds what it held; and when the record was the only one
\* of the store, list_services() is empty afterwards.
DeleteExisting ==
    [][ ( /\ pc = "menu"
          /\ out'.op = "delete"
          /\ HasRecord(passwords, out'.service, out'.username) )
            => ( /\ out'.ret = TRUE
                 /\ ~HasRecord(passwords', out'.service, out'.username)
                 /\ (out'.service \notin DOMAIN passwords')
                        <=> (DOMAIN passwords[out'.service] = {out'.username})
                 /\ OthersUnchanged(out'.service, out'.username)
                 /\ (NumRecords(passwords) = 1
                        => list_services(passwords') = {}) ) ]_vars

\* a delete has removed one username of a service and left the other
DeleteExistingWitness ==
    /\ out.op = "delete"
    /\ out.ret
    /\ out.service \in DOMAIN passwords
    /\ out.username \notin DOMAIN passwords[out.service]

\* C8: a session constructed on a vault file that decrypts under the session
\* key to a plaintext that is not a store document ends in a
\* CorruptVaultError that reaches the caller, and installs neither the
\* malformed value nor an empty store.
MalformedRejected ==
    ( /\ out.op = "init"
      /\ out.load # "error: read"
      /\ HoldsToken(vault)
      /\ vault.bytes.token.key = _generate_key(master_password)
      /\ vault.bytes.token.data.kind # "object" )
        => (out.raised = "CorruptVaultError" /\ pc # "menu")

\* the store a handler hands to save_passwords; the time of an add is read
\* from the record it made
StoreToSave ==
    IF out'.op = "add"
    THEN add_password(passwords, out'.service, out'.username, out'.password,
                      passwords'[out'.service][out'.username].created_at)
    ELSE IF out'.op = "delete"
    THEN delete_password(passwords, out'.service, out'.username).passwords
    ELSE passwords

\* C9: when the write of the vault file fails with an I/O error, the failure
\* reaches the caller of save_passwords as an IOFailure, and the store in
\* memory is the one that was to be saved.
SavePropagatesIOFailure ==
    [][ ( /\ pc = "menu"
          /\ out'.op \in {"add", "delete", "exit"}
          /\ out'.io \in {"open error", "write error"} )
            => ( /\ out'.raised = "IOFailure"
                 /\ passwords' = StoreToSave ) ]_vars

\* C10: a save that succeeds over a vault file holding a token of the session
\* key with the same plaintext writes a file that differs from it, and both
\* files load to the same store under the session key.
FreshCiphertext ==
    [][ ( /\ pc = "menu"
          /\ out'.op \in {"add", "delete", "exit"}
          /\ out'.save = "Passwords saved successfully."
          /\ HoldsToken(vault)
          /\ vault.bytes.token.key = _generate_key(master_password)
          /\ vault.bytes.token.data = json_dumps(passwords_type', passwords') )
            => ( /\ vault' # vault
                 /\ PasswordManagerInit(vault', master_password, TRUE).passwords
                        = PasswordManagerInit(vault, master_password, TRUE).passwords
                 /\ PasswordManagerInit(vault', master_password, TRUE).passwords
                        = passwords' ) ]_vars

\* 'Save and exit' has written again, with success, the store with records
\* that the vault file already held under the session key
FreshCiphertextWitness ==
    /\ out.op = "exit"
    /\ out.same
    /\ out.save = "Passwords saved successfully."
    /\ passwords_type = "dict"
    /\ passwords # EmptyDict


----------------------------------------------------------------------------
(* The password functions *)

\* the score the four terms of the analysis add up to, read off the result:
\* the length of the password, the classes it reports and the feedback it gives
SumOfTerms(password, info) ==
    LET n == Len(password)
        classes ==
            BoolInt(info.has_lowercase) + BoolInt(info.has_uppercase)
                + BoolInt(info.has_digit) + BoolInt(info.has_special)
    IN  (IF n < 8 THEN -2 ELSE IF n >= 12 THEN 2 ELSE 1)
            + (IF classes = 4 THEN 3
               ELSE IF classes = 3 THEN 2
               ELSE IF classes = 2 THEN 1 ELSE -1)
            + (IF "Contains common patterns" \in Range(info.feedback)
               THEN -3 ELSE 0)
            + (IF "Contains repeating characters" \in Range(info.feedback)
               THEN -1 ELSE 0)

\* C11: the score analyse_password_strength returns is the sum of the length
\* term, the variety term, -3 for a common pattern and -1 for a character
\* repeated three times, and lies in the documented range -3 .. 5.
ScoreInDocumentedRange ==
    out.op = "analysed" =>
        /\ out.strength_info.score = SumOfTerms(out.password, out.strength_info)
        /\ out.strength_info.score \in -3..5

\* C12: generate_password(length, include_special) returns a password of
\* exactly length characters, whatever integer length is.
ExactLength ==
    out.op = "generated" => Len(out.password) = out.length

----------------------------------------------------------------------------
(* Sessions and the vault file *)

\* C13: a session whose load failed decryption leaves the vault file as it
\* found it: whatever the menu does next, the file that held a store with
\* records under a master password P still loads under P to that store.
FailedLoadKeepsVault ==
    [][ \A P \in MasterPasswords :
          LET before == PasswordManagerInit(vault, P, TRUE)
          IN  ( /\ pc = "menu"
                /\ out.op = "init"
                /\ out.load = "error: decrypt"
                /\ before.load = "loaded"
                /\ before.passwords_type = "dict"
                /\ before.passwords # EmptyDict )
                  => PasswordManagerInit(vault', P, TRUE) = before ]_vars

\* the vault file is absent and the store in memory empty, or the file
\* decrypts under the session key and parses to exactly the store in memory
Persisted ==
    \/ /\ ~vault.exists
       /\ passwords_type = "dict"
       /\ passwords = EmptyDict
    \/ /\ vault.exists
       /\ FernetDecrypt(_generate_key(master_password), vault.bytes).ok
       /\ json_loads(FernetDecrypt(_generate_key(master_password),
                                   vault.bytes).data)
              = [ok |-> TRUE, type |-> passwords_type, value |-> passwords]

\* the vault file holds no bytes and the store in memory is empty
EmptyFileEmptyStore ==
    /\ vault = File(EmptyBytes)
    /\ passwords_type = "dict"
    /\ passwords = EmptyDict

\* the step is the construction of a manager whose load did not fail
LoadSucceeded ==
    /\ pc # "menu"
    /\ pc' = "menu"
    /\ out'.op = "init"
    /\ out'.load \in {"no file", "empty file", "loaded"}

\* the step is a menu handler none of whose writes failed (a handler that
\* only prints leaves every variable as it was)
HandlerWithoutFailedWrite ==
    /\ pc = "menu"
    /\ vars' # vars
    /\ out'.op \in {"add", "delete", "exit"} => out'.io \in {"ok", "none"}

\* the step is a delete that found no record
FailedDelete ==
    /\ pc = "menu"
    /\ out'.op = "delete"
    /\ ~out'.ret

\* C14, as stated: a session starts persisted when its load succeeded or
\* there was no vault file, and stays persisted over every handler whose
\* writes succeed, up to and including the exit; a failed delete writes
\* nothing.
PersistenceFollowsMutation ==
    [][ /\ LoadSucceeded => Persisted'
        /\ (HandlerWithoutFailedWrite /\ Persisted) => Persisted'
        /\ FailedDelete => (vault' = vault /\ passwords' = passwords)
      ]_vars

\* C14, amended: the same, where a vault file of zero bytes with an empty
\* store in memory also counts as persisted.
PersistenceFollowsMutationOrEmptyFile ==
    [][ /\ LoadSucceeded => (EmptyFileEmptyStore' \/ Persisted')
        /\ (HandlerWithoutFailedWrite /\ (EmptyFileEmptyStore \/ Persisted))
               => (EmptyFileEmptyStore' \/ Persisted')
        /\ FailedDelete => (vault' = vault /\ passwords' = passwords)
      ]_vars

\* a record was deleted and the store saved, and the vault file loads to the
\* records that are left
PersistenceWitness ==
    /\ pc = "menu"
    /\ out.op = "delete"
    /\ out.ret
    /\ out.io = "ok"
    /\ passwords # EmptyDict
    /\ Persisted

============================================================================
